---- MODULE Spec2Model ----
(***************************************************************************)
(* Model of the volleyball team ELO ladder (src/volleyball_elo_v2.py).     *)
(*                                                                         *)
(* The state is Streamlit's session state (players, match_history,         *)
(* admin_authenticated) plus last_handler, the handler that ran last, and  *)
(* messages, the st.error / st.warning / st.success calls it made.         *)
(* A Python str is a sequence of one-character strings, so that split and  *)
(* strip are computed and not assumed.  The players dict is a sequence of  *)
(* <<name, rating>> pairs in insertion order.                              *)
(*                                                                         *)
(* Ratings are integers.  k * (score_a - expected_a) is an irrational real *)
(* for every pair of team averages the code can form, so round() never     *)
(* meets a tie and round(rating + c) = rating + round(c) for an integer    *)
(* rating; round(c) is computed exactly from the table Thresholds.         *)
(***************************************************************************)
EXTENDS Integers, Sequences, FiniteSets, TLC

VARIABLES players, match_history, admin_authenticated, last_handler, messages

vars == <<players, match_history, admin_authenticated, last_handler, messages>>

\* ------------------------------------------------------------------ bounds
\* Cap on the number of records the history may hold in the model.
MaxHistory == 2

\* ------------------------------------------------------------ strings
RECURSIVE lstrip(_)
lstrip(s) == IF s # <<>> /\ Head(s) = " " THEN lstrip(Tail(s)) ELSE s

RECURSIVE rstrip(_)
rstrip(s) ==
    IF s # <<>> /\ s[Len(s)] = " " THEN rstrip(SubSeq(s, 1, Len(s) - 1)) ELSE s

\* str.strip()
strip(s) == rstrip(lstrip(s))

\* str.split(','): the pieces between commas, empty pieces included
RECURSIVE split(_)
split(s) ==
    IF \A i \in DOMAIN s : s[i] # ","
    THEN <<s>>
    ELSE LET i == CHOOSE j \in DOMAIN s :
                      s[j] = "," /\ \A h \in 1..(j - 1) : s[h] # ","
         IN  <<SubSeq(s, 1, i - 1)>> \o split(SubSeq(s, i + 1, Len(s)))

NonEmptyStr(s) == s # <<>>

\* variant: the empty pieces are kept
parse_team_string_KeepEmpty(team_str) ==
    LET pieces == split(team_str)
    IN  [i \in DOMAIN pieces |-> strip(pieces[i])]

\* [player.strip() for player in team_str.split(',') if player.strip()]
parse_team_string(team_str) ==
    LET pieces == split(team_str)
        stripped == [i \in DOMAIN pieces |-> strip(pieces[i])]
    IN  SelectSeq(stripped, NonEmptyStr)

\* a cell of the uploaded DataFrame: text, or NaN for an empty field
Text(s) == [nan |-> FALSE, text |-> s]
NaN == [nan |-> TRUE, text |-> <<>>]

\* str(row[...])
str(cell) == IF cell.nan THEN <<"n", "a", "n">> ELSE cell.text

TEAM_A == <<"T", "e", "a", "m", "_", "A">>
TEAM_B == <<"T", "e", "a", "m", "_", "B">>

\* ------------------------------------------------------------ rating math
K == 32

RECURSIVE sum(_)
sum(ratings) == IF ratings = <<>> THEN 0 ELSE Head(ratings) + sum(Tail(ratings))

\* sum(player_ratings) / len(player_ratings), kept as an exact fraction
calculate_team_rating(player_ratings) ==
    [num |-> sum(player_ratings), den |-> Len(player_ratings)]

\* Thresholds[n] = floor(3600 * 400 * log10((2K + 1 - 2n) / (2n - 1))):
\* K / (1 + 10^(x / 400)) > n - 1/2  iff  x < 400 * log10((2K+1-2n)/(2n-1)).
\* 3600 is a multiple of len(a) * len(b) for teams of up to five players.
Thresholds ==
    << 2591050, 1883820, 1543510, 1311518, 1132013, 983351, 854822, 740310,
       635974, 539220, 448198, 361520, 278099, 197046, 117604, 39099,
       -39100, -117605, -197047, -278100, -361521, -448199, -539221, -635975,
       -740311, -854823, -983352, -1132014, -1311519, -1543511, -1883821,
       -2591051 >>

\* round(K * (1 - calculate_expected_score(w, l))) for 3600 * (w - l) = diff
RoundedGain(diff) == Cardinality({n \in 1..K : diff <= Thresholds[n]})

\* 3600 * (avg_a - avg_b)
ScaledDiff(avg_a, avg_b) ==
    (3600 * (avg_a.num * avg_b.den - avg_b.num * avg_a.den))
        \div (avg_a.den * avg_b.den)

\* variant: team B's ratings move the same way as team A's
update_elo_ratings_SameSign(team_a_ratings, team_b_ratings, team_a_wins) ==
    LET avg_rating_a == calculate_team_rating(team_a_ratings)
        avg_rating_b == calculate_team_rating(team_b_ratings)
        rating_change ==
            IF team_a_wins
            THEN RoundedGain(ScaledDiff(avg_rating_a, avg_rating_b))
            ELSE 0 - RoundedGain(ScaledDiff(avg_rating_b, avg_rating_a))
    IN  [new_ratings_a |-> [i \in DOMAIN team_a_ratings |->
                               team_a_ratings[i] + rating_change],
         new_ratings_b |-> [i \in DOMAIN team_b_ratings |->
                               team_b_ratings[i] + rating_change],
         rating_change |-> rating_change]

update_elo_ratings(team_a_ratings, team_b_ratings, team_a_wins) ==
    LET avg_rating_a == calculate_team_rating(team_a_ratings)
        avg_rating_b == calculate_team_rating(team_b_ratings)
        \* round(k * (score_a - expected_a))
        rating_change ==
            IF team_a_wins
            THEN RoundedGain(ScaledDiff(avg_rating_a, avg_rating_b))
            ELSE 0 - RoundedGain(ScaledDiff(avg_rating_b, avg_rating_a))
    IN  [new_ratings_a |-> [i \in DOMAIN team_a_ratings |->
                               team_a_ratings[i] + rating_change],
         new_ratings_b |-> [i \in DOMAIN team_b_ratings |->
                               team_b_ratings[i] - rating_change],
         rating_change |-> rating_change]

\* ------------------------------------------------------------ the players dict
Names(store) == {store[i][1] : i \in DOMAIN store}

\* st.session_state.players[p]
Rating(store, p) == store[CHOOSE i \in DOMAIN store : store[i][1] = p][2]

\* variant: the assignment reaches every entry of the dict
SetRating_Every(store, p, r) ==
    IF p \in Names(store)
    THEN [i \in DOMAIN store |-> <<store[i][1], r>>]
    ELSE Append(store, <<p, r>>)

\* st.session_state.players[p] = r
SetRating(store, p, r) ==
    IF p \in Names(store)
    THEN [i \in DOMAIN store |-> IF store[i][1] = p THEN <<p, r>> ELSE store[i]]
    ELSE Append(store, <<p, r>>)

\* variant: without the "not in" test, every listed player is set to 1400
RECURSIVE InitializeNewPlayers_Overwrite(_, _)
InitializeNewPlayers_Overwrite(store, all_players) ==
    IF all_players = <<>>
    THEN store
    ELSE InitializeNewPlayers_Overwrite(SetRating(store, Head(all_players), 1400),
                                        Tail(all_players))

\* for player in all_players: if player not in players: players[player] = 1400
RECURSIVE InitializeNewPlayers(_, _)
InitializeNewPlayers(store, all_players) ==
    IF all_players = <<>>
    THEN store
    ELSE InitializeNewPlayers(
             IF Head(all_players) \in Names(store)
             THEN store
             ELSE Append(store, <<Head(all_players), 1400>>),
             Tail(all_players))

\* [st.session_state.players[p] for p in team_players]
CurrentRatings(store, team_players) ==
    [i \in DOMAIN team_players |-> Rating(store, team_players[i])]

\* variant: every player of the team is given new_ratings[0]
ApplyNewRatings_FirstOnly(store, team_players, new_ratings) ==
    LET RECURSIVE each(_, _)
        each(st, ps) ==
            IF ps = <<>> THEN st
            ELSE each(SetRating(st, Head(ps), Head(new_ratings)), Tail(ps))
    IN  each(store, team_players)

\* for i, player in enumerate(team_players): players[player] = new_ratings[i]
RECURSIVE ApplyNewRatings(_, _, _)
ApplyNewRatings(store, team_players, new_ratings) ==
    IF team_players = <<>>
    THEN store
    ELSE ApplyNewRatings(SetRating(store, Head(team_players), Head(new_ratings)),
                         Tail(team_players), Tail(new_ratings))

\* variant: the record is put in front of the history
append_Front(history, info) == <<info>> \o history

\* st.session_state.match_history.append(match_info)
append(history, info) == Append(history, info)

Message(level, text, n) == [level |-> level, text |-> text, n |-> n]

Abs(n) == IF n < 0 THEN 0 - n ELSE n

match_info(team_a, team_b, winner, team_a_wins, rating_change) ==
    [Team_A |-> team_a,
     Team_B |-> team_b,
     Winner |-> winner,
     Team_A_Rating_Change |->
         IF team_a_wins THEN rating_change ELSE 0 - rating_change,
     Team_B_Rating_Change |->
         IF team_a_wins THEN 0 - rating_change ELSE rating_change]

\* ------------------------------------------------------------ inputs
\* team strings: "a,b"   "c, d"   " a "   "c"   ","   ""
AB == <<"a", ",", "b">>
CD == <<"c", ",", " ", "d">>
A_ == <<" ", "a", " ">>
C_ == <<"c">>
Commas == <<",">>
Empty == <<>>

Form(team_a, team_b, winner) ==
    [team_a |-> team_a, team_b |-> team_b, winner |-> winner]

\* what the admin can submit in the manual_match form; winner is the
\* st.selectbox choice
FormInputs ==
    { Form(AB, CD, "Team A"), Form(AB, CD, "Team B"),
      Form(A_, C_, "Team A"),
      Form(A_, CD, "Team A"), Form(AB, C_, "Team B"),
      Form(A_, AB, "Team A"), Form(AB, A_, "Team A"),
      Form(AB, AB, "Team A"),
      Form(Commas, AB, "Team A"), Form(CD, Commas, "Team B"),
      Form(Empty, AB, "Team A"), Form(Empty, Empty, "Team B") }

Row(team_a, team_b, winner) ==
    [Team_A |-> team_a, Team_B |-> team_b, Winner |-> winner]

\* the DataFrames pd.read_csv can hand to the loop (required columns present)
Uploads ==
    { <<>>,
      \* two valid rows, untrimmed cells
      << Row(Text(AB), Text(CD), Text(TEAM_A)),
         Row(Text(A_), Text(CD),
             Text(TEAM_B \o <<" ">>)) >>,
      \* two valid rows, nothing to trim
      << Row(Text(AB), Text(CD), Text(TEAM_A)),
         Row(Text(AB), Text(CD), Text(TEAM_A)) >>,
      \* winner Team_C between two valid rows
      << Row(Text(A_), Text(AB), Text(TEAM_A)),
         Row(Text(CD), Text(AB),
             Text(<<"T", "e", "a", "m", "_", "C">>)),
         Row(Text(AB), Text(A_), Text(TEAM_B)) >>,
      \* a team of commas only, then a valid row
      << Row(Text(Commas), Text(AB), Text(TEAM_A)),
         Row(Text(AB), Text(CD), Text(TEAM_B)) >>,
      \* empty fields
      << Row(NaN, Text(AB), Text(TEAM_A)),
         Row(Text(AB), Text(CD), NaN) >> }

ADMIN_PASSWORD == "volleyball2024"

PasswordInputs == {"volleyball2024", "letmein"}

\* ------------------------------------------------------------ handlers
\* if st.form_submit_button("Add Match"): ...
ManualMatchResult(store, history, team_a, team_b, winner) ==
    IF team_a # <<>> /\ team_b # <<>>
    THEN LET team_a_players == parse_team_string(team_a)
             team_b_players == parse_team_string(team_b)
         IN  IF Len(team_a_players) = 0 \/ Len(team_b_players) = 0
             THEN [players |-> store, match_history |-> history,
                   messages |-> <<Message("error",
                       "Both teams must have at least one player", 0)>>]
             ELSE LET all_players == team_a_players \o team_b_players
                      initialized == InitializeNewPlayers(store, all_players)
                      team_a_ratings == CurrentRatings(initialized, team_a_players)
                      team_b_ratings == CurrentRatings(initialized, team_b_players)
                      team_a_wins == (winner = "Team A")
                      new == update_elo_ratings(team_a_ratings, team_b_ratings,
                                                team_a_wins)
                      applied_a == ApplyNewRatings(initialized, team_a_players,
                                                   new.new_ratings_a)
                      applied_b == ApplyNewRatings(applied_a, team_b_players,
                                                   new.new_ratings_b)
                  IN  [players |-> applied_b,
                       match_history |-> append(history,
                           match_info(team_a, team_b,
                                      IF team_a_wins THEN TEAM_A ELSE TEAM_B,
                                      team_a_wins, new.rating_change)),
                       messages |-> <<Message("success", "Match added! Rating change",
                                              Abs(new.rating_change))>>]
    ELSE [players |-> store, match_history |-> history,
          messages |-> <<Message("error",
              "Please enter players for both teams", 0)>>]

\* one iteration of: for _, row in df.iterrows(): ...
process_row(state, row) ==
    LET team_a == strip(str(row.Team_A))
        team_b == strip(str(row.Team_B))
        winner == strip(str(row.Winner))
        team_a_players == parse_team_string(team_a)
        team_b_players == parse_team_string(team_b)
    IN  IF Len(team_a_players) = 0 \/ Len(team_b_players) = 0
        THEN [state EXCEPT !.messages = Append(@,
                 Message("warning", "Skipping match with empty team", 0))]
        ELSE LET all_players == team_a_players \o team_b_players
                 initialized == InitializeNewPlayers(state.players, all_players)
                 team_a_ratings == CurrentRatings(initialized, team_a_players)
                 team_b_ratings == CurrentRatings(initialized, team_b_players)
             IN  IF winner \notin {TEAM_A, TEAM_B}
                 THEN [state EXCEPT
                         !.players = initialized,
                         !.messages = Append(@,
                             Message("warning", "Invalid winner. Skipping.", 0))]
                 ELSE LET team_a_wins == (winner = TEAM_A)
                          new == update_elo_ratings(team_a_ratings, team_b_ratings,
                                                    team_a_wins)
                          applied_a == ApplyNewRatings(initialized, team_a_players,
                                                       new.new_ratings_a)
                          applied_b == ApplyNewRatings(applied_a, team_b_players,
                                                       new.new_ratings_b)
                          info == match_info(team_a, team_b, winner, team_a_wins,
                                             new.rating_change)
                      IN  [players |-> applied_b,
                           match_history |-> append(state.match_history, info),
                           processed_matches |->
                               Append(state.processed_matches, info),
                           messages |-> state.messages]

\* the loop over the rows of df, from the state it starts in
RECURSIVE process_rows(_, _)
process_rows(state, df) ==
    IF df = <<>> THEN state ELSE process_rows(process_row(state, Head(df)), Tail(df))

\* if st.button("Process Matches and Update ELO"): ...
BulkUploadResult(store, history, df) ==
    LET done == process_rows([players |-> store, match_history |-> history,
                              processed_matches |-> <<>>, messages |-> <<>>], df)
    IN  [players |-> done.players,
         match_history |-> done.match_history,
         messages |-> Append(done.messages,
             Message("success", "Processed matches successfully!",
                     Len(done.processed_matches)))]

\* variant: any password opens the panel
PasswordAccepted_Any(password) == password \in PasswordInputs

\* if password == ADMIN_PASSWORD
PasswordAccepted(password) == password = ADMIN_PASSWORD

\* ------------------------------------------------------------ state machine
Init ==
    /\ players = <<>>
    /\ match_history = <<>>
    /\ admin_authenticated = FALSE
    /\ last_handler = "none"
    /\ messages = <<>>

Login(password) ==
    /\ ~admin_authenticated
    /\ last_handler' = "Login"
    /\ IF PasswordAccepted(password)
       THEN /\ admin_authenticated' = TRUE
            /\ messages' = <<Message("success", "Admin access granted!", 0)>>
       ELSE /\ admin_authenticated' = admin_authenticated
            /\ messages' = <<Message("error", "Incorrect password", 0)>>
    /\ UNCHANGED <<players, match_history>>

Logout ==
    /\ admin_authenticated
    /\ last_handler' = "Logout"
    /\ admin_authenticated' = FALSE
    /\ messages' = <<>>
    /\ UNCHANGED <<players, match_history>>

ManualMatch(team_a, team_b, winner) ==
    /\ admin_authenticated
    /\ last_handler' = "manual_match"
    /\ LET r == ManualMatchResult(players, match_history, team_a, team_b, winner)
       IN  /\ Len(r.match_history) <= MaxHistory
           /\ match_history' = r.match_history
           /\ players' = r.players
           /\ messages' = r.messages
    /\ UNCHANGED admin_authenticated

BulkUpload(df) ==
    /\ admin_authenticated
    /\ last_handler' = "bulk_upload"
    /\ LET r == BulkUploadResult(players, match_history, df)
       IN  /\ Len(r.match_history) <= MaxHistory
           /\ match_history' = r.match_history
           /\ players' = r.players
           /\ messages' = r.messages
    /\ UNCHANGED admin_authenticated

\* variant: only the players are cleared
ResetAllData_PlayersOnly(confirmed) ==
    /\ admin_authenticated
    /\ last_handler' = "Reset All Data"
    /\ IF confirmed
       THEN /\ players' = <<>>
            /\ match_history' = match_history
            /\ messages' = <<Message("success", "All data has been reset!", 0)>>
       ELSE /\ UNCHANGED <<players, match_history>>
            /\ messages' = <<>>
    /\ UNCHANGED admin_authenticated

\* if st.button("Reset All Data"): if st.checkbox("I understand ..."): ...
ResetAllData(confirmed) ==
    /\ admin_authenticated
    /\ last_handler' = "Reset All Data"
    /\ IF confirmed
       THEN /\ players' = <<>>
            /\ match_history' = <<>>
            /\ messages' = <<Message("success", "All data has been reset!", 0)>>
       ELSE /\ UNCHANGED <<players, match_history>>
            /\ messages' = <<>>
    /\ UNCHANGED admin_authenticated

Next ==
    \/ \E password \in PasswordInputs : Login(password)
    \/ Logout
    \/ \E f \in FormInputs : ManualMatch(f.team_a, f.team_b, f.winner)
    \/ \E df \in Uploads : BulkUpload(df)
    \/ \E confirmed \in BOOLEAN : ResetAllData(confirmed)

Spec == Init /\ [][Next]_vars

TypeOK ==
    /\ admin_authenticated \in BOOLEAN
    /\ Len(match_history) <= MaxHistory
    /\ \A i \in DOMAIN players : players[i][2] \in Int

\* ------------------------------------------------------------ accepted matches
\* the rating a match starts from: the stored one, 1400 for an unseen name
Before(store, p) == IF p \in Names(store) THEN Rating(store, p) ELSE 1400

Elems(seq) == {seq[i] : i \in DOMAIN seq}

StoreAsSet(store) == Elems(store)

IsPrefix(s, t) == Len(s) <= Len(t) /\ SubSeq(t, 1, Len(s)) = s

MatchEvent(pre, post, team_a_players, team_b_players, info) ==
    [pre |-> pre, post |-> post, team_a |-> team_a_players,
     team_b |-> team_b_players, info |-> info]

\* the accepted match of a single-entry step, if it accepted one
ManualEvents(team_a, team_b) ==
    IF Len(match_history') = Len(match_history) + 1
    THEN {MatchEvent(players, players', parse_team_string(team_a),
                     parse_team_string(team_b),
                     match_history'[Len(match_history')])}
    ELSE {}

\* the state the loop is in before row k of df
BeforeRow(df, k) ==
    process_rows([players |-> players, match_history |-> match_history,
                  processed_matches |-> <<>>, messages |-> <<>>],
                 SubSeq(df, 1, k - 1))

AfterRow(df, k) == process_row(BeforeRow(df, k), df[k])

\* the accepted matches of a bulk step, one per row that appended a record
BulkEvents(df) ==
    { MatchEvent(BeforeRow(df, k).players, AfterRow(df, k).players,
                 parse_team_string(strip(str(df[k].Team_A))),
                 parse_team_string(strip(str(df[k].Team_B))),
                 AfterRow(df, k).match_history[Len(AfterRow(df, k).match_history)])
      : k \in { j \in DOMAIN df : Len(AfterRow(df, j).match_history)
                                    = Len(BeforeRow(df, j).match_history) + 1 } }

\* P holds of every match accepted by the step
EveryAcceptedMatch(P(_)) ==
    /\ \A f \in FormInputs :
           ManualMatch(f.team_a, f.team_b, f.winner)
               => \A e \in ManualEvents(f.team_a, f.team_b) : P(e)
    /\ \A df \in Uploads :
           BulkUpload(df) => \A e \in BulkEvents(df) : P(e)

\* ------------------------------------------------------------ C1
SignedChangeOK(m) ==
    /\ m.Team_A_Rating_Change + m.Team_B_Rating_Change = 0
    /\ IF m.Winner = TEAM_A
       THEN m.Team_A_Rating_Change > 0 /\ m.Team_B_Rating_Change < 0
       ELSE m.Team_B_Rating_Change > 0 /\ m.Team_A_Rating_Change < 0

\* C1: every record in the history carries a signed rating change per side,
\* positive for the winning side, negative for the losing side, the two of
\* equal magnitude and opposite sign.
C1_WinnerPositiveLoserNegative ==
    \A i \in DOMAIN match_history : SignedChangeOK(match_history[i])

\* ------------------------------------------------------------ C2
HasValidWinner(row) == strip(str(row.Winner)) \in {TEAM_A, TEAM_B}

\* C2: a bulk step leaves the store (its players and their ratings) and the
\* history exactly as processing only the rows with a valid winner token
\* would have left them.
C2_InvalidWinnerRowLeavesNoTrace ==
    [][\A df \in Uploads :
          BulkUpload(df) =>
              LET valid == BulkUploadResult(players, match_history,
                                            SelectSeq(df, HasValidWinner))
              IN  /\ StoreAsSet(players') = StoreAsSet(valid.players)
                  /\ match_history' = valid.match_history]_vars

\* ------------------------------------------------------------ C3
Winners(e) == IF e.info.Winner = TEAM_A THEN e.team_a ELSE e.team_b
Losers(e) == IF e.info.Winner = TEAM_A THEN e.team_b ELSE e.team_a
Magnitude(e) == Abs(e.info.Team_A_Rating_Change)

SharedDelta(e) ==
    /\ \A p \in Elems(Winners(e)) :
           Rating(e.post, p) = Before(e.pre, p) + Magnitude(e)
    /\ \A p \in Elems(Losers(e)) :
           Rating(e.post, p) = Before(e.pre, p) - Magnitude(e)

SharedDeltaOneTeam(e) ==
    /\ \A p \in Elems(Winners(e)) \ Elems(Losers(e)) :
           Rating(e.post, p) = Before(e.pre, p) + Magnitude(e)
    /\ \A p \in Elems(Losers(e)) \ Elems(Winners(e)) :
           Rating(e.post, p) = Before(e.pre, p) - Magnitude(e)
    /\ \A p \in Elems(e.team_a) \cap Elems(e.team_b) :
           Rating(e.post, p) = Before(e.pre, p)
               + (IF e.info.Winner = TEAM_B THEN Magnitude(e) ELSE 0 - Magnitude(e))

UnequalSizes(m) ==
    Len(parse_team_string(m.Team_A)) # Len(parse_team_string(m.Team_B))

RowAccepted(row) ==
    /\ \E i \in DOMAIN str(row.Team_A) : str(row.Team_A)[i] \notin {",", " "}
    /\ \E i \in DOMAIN str(row.Team_B) : str(row.Team_B)[i] \notin {",", " "}
    /\ HasValidWinner(row)

AllRowsAccepted(df) == \A k \in DOMAIN df : RowAccepted(df[k])

\* the selectbox choice that stands for a winner token
Choice(row) == IF strip(str(row.Winner)) = TEAM_A THEN "Team A" ELSE "Team B"

\* the rows submitted one at a time, in order, through the manual_match form,
\* each team field filled with the text of the cell, trimmed or as it is
Field(cell, trimmed) == IF trimmed THEN strip(str(cell)) ELSE str(cell)

RECURSIVE OneAtATime(_, _, _, _)
OneAtATime(store, history, df, trimmed) ==
    IF df = <<>>
    THEN [players |-> store, match_history |-> history]
    ELSE LET r == ManualMatchResult(store, history,
                                    Field(Head(df).Team_A, trimmed),
                                    Field(Head(df).Team_B, trimmed),
                                    Choice(Head(df)))
         IN  OneAtATime(r.players, r.match_history, Tail(df), trimmed)

\* C4: a batch of valid rows leaves the store and the history that
\* single-match entry of the same rows, one at a time and in the same order,
\* leaves.
C4_BatchEqualsOneAtATime ==
    [][\A df \in Uploads :
          BulkUpload(df) /\ AllRowsAccepted(df) =>
              LET single == OneAtATime(players, match_history, df, FALSE)
              IN  /\ players' = single.players
                  /\ match_history' = single.match_history]_vars

\* What does hold: the batch leaves the store that single-match entry of the
\* same rows leaves, and the history that single-match entry leaves when
\* each team string is entered without its leading and trailing whitespace.
BatchEqualsOneAtATimeTrimmed ==
    [][\A df \in Uploads :
          BulkUpload(df) /\ AllRowsAccepted(df) =>
              /\ players' = OneAtATime(players, match_history, df, FALSE).players
              /\ match_history' =
                     OneAtATime(players, match_history, df, TRUE).match_history
      ]_vars

\* ------------------------------------------------------------ C5
\* a team string names no player when it holds only commas and blanks
NoPlayers(team_str) == \A i \in DOMAIN team_str : team_str[i] \in {",", " "}

\* C5: a match one of whose team strings parses to no player changes neither
\* the store nor the history, in single entry and in every row of a batch.
C5_EmptyTeamRejected ==
    [][/\ \A f \in FormInputs :
              ManualMatch(f.team_a, f.team_b, f.winner)
                  /\ (NoPlayers(f.team_a) \/ NoPlayers(f.team_b))
              => players' = players /\ match_history' = match_history
       /\ \A df \in Uploads :
              BulkUpload(df) =>
                  \A k \in DOMAIN df :
                      NoPlayers(strip(str(df[k].Team_A)))
                          \/ NoPlayers(strip(str(df[k].Team_B)))
                      => /\ AfterRow(df, k).players = BeforeRow(df, k).players
                         /\ AfterRow(df, k).match_history
                                = BeforeRow(df, k).match_history]_vars

\* a batch that skipped a row for its empty team and went on
C5_Witness ==
    /\ last_handler = "bulk_upload"
    /\ \E i \in DOMAIN messages :
           messages[i].text = "Skipping match with empty team"
    /\ messages[Len(messages)].n = 1
    /\ Len(match_history) = 2

\* ------------------------------------------------------------ C6
\* C6: a confirmed reset leaves the store and the history both empty, and no
\* step empties one of them while the other keeps data.
C6_ResetClearsBoth ==
    [][/\ \A confirmed \in BOOLEAN :
              ResetAllData(confirmed) /\ confirmed
                  => players' = <<>> /\ match_history' = <<>>
       /\ (players # <<>> /\ players' = <<>>) => match_history' = <<>>
       /\ (match_history # <<>> /\ match_history' = <<>>) => players' = <<>>
      ]_vars

C6_Witness ==
    /\ last_handler = "Reset All Data"
    /\ messages # <<>>
    /\ players = <<>>
    /\ match_history = <<>>

\* ------------------------------------------------------------ C7
\* what the record of an accepted row must say
RecordOf(team_a, team_b, winner, m) ==
    m.Team_A = team_a /\ m.Team_B = team_b /\ m.Winner = winner

\* C7: every step but a reset keeps the history as a prefix; an accepted
\* single match appends one record, of that match, at the end; a rejected one
\* appends nothing; the records of a batch are those of its accepted rows,
\* in row order.
C7_AppendOnly ==
    [][/\ last_handler' # "Reset All Data" => IsPrefix(match_history, match_history')
       /\ \A f \in FormInputs :
              ManualMatch(f.team_a, f.team_b, f.winner) =>
                  IF NoPlayers(f.team_a) \/ NoPlayers(f.team_b)
                  THEN match_history' = match_history
                  ELSE /\ Len(match_history') = Len(match_history) + 1
                       /\ IsPrefix(match_history, match_history')
                       /\ RecordOf(f.team_a, f.team_b,
                                   IF f.winner = "Team A" THEN TEAM_A ELSE TEAM_B,
                                   match_history'[Len(match_history')])
       /\ \A df \in Uploads :
              BulkUpload(df) =>
                  LET rows == SelectSeq(df, RowAccepted)
                  IN  /\ Len(match_history') = Len(match_history) + Len(rows)
                      /\ IsPrefix(match_history, match_history')
                      /\ \A j \in DOMAIN rows :
                             RecordOf(strip(str(rows[j].Team_A)),
                                      strip(str(rows[j].Team_B)),
                                      strip(str(rows[j].Winner)),
                                      match_history'[Len(match_history) + j])
      ]_vars

\* a batch that skipped a row and appended one record after an earlier one
C7_Witness ==
    /\ last_handler = "bulk_upload"
    /\ Len(match_history) = 2
    /\ Len(messages) = 2
    /\ match_history[1].Team_A = AB
    /\ match_history[2].Team_A = <<"n", "a", "n">>

\* ------------------------------------------------------------ C8
BeforeRatings(store, team_players) ==
    [i \in DOMAIN team_players |-> Before(store, team_players[i])]

\* the match was computed from Before: the reported change is the one the
\* rating update yields for those ratings, and every listed player is stored
ComputedFromBefore(e) ==
    LET expected == update_elo_ratings(BeforeRatings(e.pre, e.team_a),
                                       BeforeRatings(e.pre, e.team_b),
                                       e.info.Winner = TEAM_A)
    IN  /\ e.info.Team_A_Rating_Change =
               (IF e.info.Winner = TEAM_A THEN expected.rating_change
                                          ELSE 0 - expected.rating_change)
        /\ Elems(e.team_a) \cup Elems(e.team_b) \subseteq Names(e.post)
        /\ \A p \in Elems(e.team_b) :
               Rating(e.post, p) = Before(e.pre, p) - expected.rating_change

\* C8: an accepted match reads 1400 as the 'before' rating of every player it
\* names who is not in the store, and the stored rating of every player who is.
C8_NewPlayerStartsAt1400 == [][EveryAcceptedMatch(ComputedFromBefore)]_vars

\* a second match between a player with a changed rating and unseen players
C8_Witness ==
    /\ Len(match_history) = 2
    /\ match_history[1].Team_A = A_ /\ match_history[1].Team_B = C_
    /\ match_history[2].Team_A = AB /\ match_history[2].Team_B = CD
    /\ Abs(match_history[2].Team_A_Rating_Change) # 16

\* ------------------------------------------------------------ C9
\* C9: while admin_authenticated is false no step changes the store or the
\* history, and admin_authenticated turns true only by a login with the
\* admin password.
C9_OnlyAdminWrites ==
    [][/\ ~admin_authenticated
              => players' = players /\ match_history' = match_history
       /\ (~admin_authenticated /\ admin_authenticated')
              => last_handler' = "Login"
       /\ \A password \in PasswordInputs :
              Login(password) /\ password # ADMIN_PASSWORD
                  => ~admin_authenticated']_vars

\* logged out with data in place, after a login attempt that failed
C9_Witness ==
    /\ ~admin_authenticated
    /\ last_handler = "Login"
    /\ messages = <<Message("error", "Incorrect password", 0)>>
    /\ match_history # <<>>

\* ------------------------------------------------------------ C10
NoRepeats(seq) == Cardinality(Elems(seq)) = Len(seq)

\* both teams of the same size and no player listed twice
EvenMatch(m) ==
    LET team_a_players == parse_team_string(m.Team_A)
        team_b_players == parse_team_string(m.Team_B)
    IN  /\ Len(team_a_players) = Len(team_b_players)
        /\ NoRepeats(team_a_players \o team_b_players)

StoredRatings(store) == [i \in DOMAIN store |-> store[i][2]]

\* C10: when every match in the history had teams of equal size and listed
\* no player twice, the ratings in the store add up to 1400 per player.
C10_PointsConserved ==
    (\A i \in DOMAIN match_history : EvenMatch(match_history[i]))
        => sum(StoredRatings(players)) = 1400 * Len(players)

\* two even matches, the second between players of different ratings
C10_Witness ==
    /\ Len(match_history) = 2
    /\ \A i \in DOMAIN match_history : EvenMatch(match_history[i])
    /\ Len(parse_team_string(match_history[2].Team_A)) = 2
    /\ Abs(match_history[2].Team_A_Rating_Change) # 16
    /\ \E i \in DOMAIN players : players[i][2] \notin {1384, 1400, 1416}

\* ------------------------------------------------------------ C11
Listed(e) == Elems(e.team_a) \cup Elems(e.team_b)

\* the players the store held before the match and the match does not name
\* are still in the store, at the rating they had
BystandersKept(e) ==
    \A p \in Names(e.pre) \ Listed(e) :
        /\ p \in Names(e.post)
        /\ Rating(e.post, p) = Rating(e.pre, p)

\* C11: an accepted match leaves every player who is in the store and is
\* named in neither of its teams in the store, with an unchanged rating.
C11_OnlyListedPlayersChange == [][EveryAcceptedMatch(BystandersKept)]_vars

\* a second match that names neither of two players the first one moved
C11_Witness ==
    /\ Len(match_history) = 2
    /\ Abs(match_history[2].Team_A_Rating_Change) # 0
    /\ LET named == Elems(parse_team_string(match_history[2].Team_A))
                        \cup Elems(parse_team_string(match_history[2].Team_B))
       IN  /\ \E i \in DOMAIN players :
                  players[i][1] \notin named /\ players[i][2] = 1416
           /\ \E i \in DOMAIN players :
                  players[i][1] \notin named /\ players[i][2] = 1384
           /\ \E i \in DOMAIN players :
                  players[i][1] \in named /\ players[i][2] # 1400

====
